---------------------------- MODULE Spec2Model ----------------------------
(***************************************************************************)
(* A state-machine model of the wasm_frame engine of boxframe: the buffer  *)
(* registry (core.rs), the series accessors (series.rs), the filter        *)
(* operator (filtering.rs), the sort operator (sorting.rs) and the groupby *)
(* operator (groupby.rs).                                                   *)
(*                                                                         *)
(* Modelling decisions                                                     *)
(*  - A u32 handle lives in 0 .. HandleSpace-1 and wrapping_add(1) is      *)
(*    addition modulo HandleSpace; u32::MAX is HandleSpace-1.  HandleSpace *)
(*    stands for 2^32 and is a bound of the model.                         *)
(*  - A registry entry (ptr, len) is a record [ptr, len, buf]; buf is the  *)
(*    content of the heap block ptr points to.  A pointer is 0 (null) or 1 *)
(*    (any non-null address): the code only ever tests is_null().          *)
(*  - std::alloc::alloc with a zero-size layout is undefined behaviour; the *)
(*    builds return either null or a non-null address, so a zero-length    *)
(*    allocation draws its pointer from {0, 1}.  Allocation of a non-empty *)
(*    block is taken to succeed.                                           *)
(*  - An f64 is a record [k, n, d]: NaN, or the rational n/d.              *)
(***************************************************************************)
EXTENDS Integers, Sequences, FiniteSets, TLC

VARIABLES
    next_series_id,     \* EngineState.next_series_id
    series_store,       \* EngineState.series_store
    series_store_i32,   \* EngineState.series_store_i32
    input,              \* the arrays and flags drawn by SpecFilter and SpecSort
    ret                 \* the last call: its entry point and the value it returned

vars == <<next_series_id, series_store, series_store_i32, input, ret>>
registry == <<next_series_id, series_store, series_store_i32>>

\* ------------------------------------------------------------- bounds
HandleSpace == 3
MaxLive == 2
MaxLen == 1

\* ------------------------------------------------------------- values
I32_MIN == (-2147483647) - 1

\* f64 values: NaN, +/- infinity, the rational n/d (d > 0, lowest terms), or the
\* irrational square root of the rational n/d.
NaN == [k |-> "nan", n |-> 0, d |-> 1]
INFINITY == [k |-> "inf", n |-> 0, d |-> 1]
NEG_INFINITY == [k |-> "ninf", n |-> 0, d |-> 1]
Num(i) == [k |-> "num", n |-> i, d |-> 1]
is_nan(v) == v.k = "nan"

Abs(i) == IF i < 0 THEN -i ELSE i
RECURSIVE GCD(_, _)
GCD(a, b) == IF b = 0 THEN a ELSE GCD(b, a % b)
Rat(n, d) ==
    LET g == GCD(Abs(n), d)
    IN [k |-> "num", n |-> n \div g, d |-> d \div g]

\* a + b, a - b, a * b, a / b on the values the model's inputs produce; an
\* operand combination outside them has no case here and stops the check.
FAdd(a, b) ==
    CASE a.k = "num" /\ b.k = "num" -> Rat(a.n * b.d + b.n * a.d, a.d * b.d)
      [] a.k = "sqrt" /\ b = Num(0) -> a
      [] b.k = "sqrt" /\ a = Num(0) -> b
FSub(a, b) ==
    CASE a.k = "num" /\ b.k = "num" -> Rat(a.n * b.d - b.n * a.d, a.d * b.d)
      [] a.k = "sqrt" /\ b = a -> Num(0)
      [] a.k = "sqrt" /\ b = Num(0) -> a
FMul(a, b) ==
    CASE a.k = "num" /\ b.k = "num" -> Rat(a.n * b.n, a.d * b.d)
      [] a.k = "sqrt" /\ b = a -> Rat(a.n, a.d)
\* a / c for a count c > 0
FDivInt(a, c) ==
    CASE a.k = "num" -> Rat(a.n, a.d * c)
      [] a.k = "sqrt" -> IF c = 1 THEN a ELSE [k |-> "sqrt", n |-> Rat(a.n, a.d * c * c).n,
                                                 d |-> Rat(a.n, a.d * c * c).d]
IsSquare(i) == \E r \in 0..i : r * r = i
ISqrt(i) == CHOOSE r \in 0..i : r * r = i
\* f64::sqrt of a rational a >= 0
FSqrt(a) ==
    IF IsSquare(a.n) /\ IsSquare(a.d)
    THEN Rat(ISqrt(a.n), ISqrt(a.d))
    ELSE [k |-> "sqrt", n |-> a.n, d |-> a.d]

\* a < b on f64 (false when either is NaN)
FLt(a, b) ==
    CASE is_nan(a) \/ is_nan(b) -> FALSE
      [] a.k = "inf" \/ b.k = "ninf" -> FALSE
      [] a.k = "ninf" \/ b.k = "inf" -> TRUE
      [] a.k = "num" /\ b.k = "num" -> a.n * b.d < b.n * a.d
      [] a.k = "sqrt" /\ b.k = "sqrt" -> a.n * b.d < b.n * a.d
      [] a.k = "sqrt" /\ b.k = "num" -> b.n > 0 /\ a.n * b.d * b.d < b.n * b.n * a.d
      [] a.k = "num" /\ b.k = "sqrt" -> a.n < 0 \/ a.n * a.n * b.d < b.n * a.d * a.d
FGt(a, b) == FLt(b, a)

F64Vals == {NaN, Num(1), Num(2)}
I32Vals == {I32_MIN, 1, 2}
Bytes == {0, 1, 2}

SeqsUpTo(S, n) == UNION {[1..m -> S] : m \in 0..n}
F64Seqs == SeqsUpTo(F64Vals, MaxLen)
I32Seqs == SeqsUpTo(I32Vals, MaxLen)

Handles == 0..(HandleSpace - 1)
U32_MAX == HandleSpace - 1
wrapping_add(a, b) == (a + b) % HandleSpace

\* ------------------------------------------------------------- registry
\* EngineState::alloc_f64_buffer / alloc_i32_buffer: the set of (ptr, len, buf)
\* an allocation of `data` can produce.
AllocPtrs(len) == IF len = 0 THEN {0, 1} ELSE {1}
alloc_buffer(data) ==
    {[ptr |-> p, len |-> Len(data), buf |-> data] : p \in AllocPtrs(Len(data))}

\* HashMap::insert
Insert(store, id, e) ==
    [h \in (DOMAIN store) \cup {id} |-> IF h = id THEN e ELSE store[h]]
\* HashMap::remove
Remove(store, id) == [h \in (DOMAIN store) \ {id} |-> store[h]]

EmptyStore == [h \in {} |-> [ptr |-> 0, len |-> 0, buf |-> <<>>]]

engine_series_count == Cardinality(DOMAIN series_store) + Cardinality(DOMAIN series_store_i32)

RECURSIVE SumLen(_, _)
SumLen(store, hs) ==
    IF hs = {} THEN 0
    ELSE LET h == CHOOSE x \in hs : TRUE
         IN store[h].len + SumLen(store, hs \ {h})

engine_memory_usage ==
    SumLen(series_store, DOMAIN series_store) * 8
    + SumLen(series_store_i32, DOMAIN series_store_i32) * 4

\* Room for one more live series (the bound on the registry's size).
Room(k) == engine_series_count + k <= MaxLive

\* The last call: its entry point and the value it returned.  The free calls and
\* flush return nothing: val is the number of registry entries they released.
Ret(op, val) == [op |-> op, val |-> val]

engine_create_series_f64(data) ==
    /\ \E e \in alloc_buffer(data) :
          series_store' = Insert(series_store, next_series_id, e)
    /\ next_series_id' = wrapping_add(next_series_id, 1)
    /\ ret' = Ret("engine_create_series_f64", next_series_id)
    /\ UNCHANGED series_store_i32

\* Seeded fault: the i32 table numbers its series by itself.
create_series_i32_own_counter(data) ==
    /\ \E e \in alloc_buffer(data) :
          series_store_i32' =
              Insert(series_store_i32, Cardinality(DOMAIN series_store_i32), e)
    /\ ret' = Ret("engine_create_series_i32", Cardinality(DOMAIN series_store_i32))
    /\ UNCHANGED <<next_series_id, series_store>>

engine_create_series_i32(data) ==
    /\ \E e \in alloc_buffer(data) :
          series_store_i32' = Insert(series_store_i32, next_series_id, e)
    /\ next_series_id' = wrapping_add(next_series_id, 1)
    /\ ret' = Ret("engine_create_series_i32", next_series_id)
    /\ UNCHANGED series_store

\* Seeded fault: a free that releases nothing.
free_series_leak(series_id) ==
    /\ ret' = Ret("engine_free_series", IF series_id \in DOMAIN series_store THEN 1 ELSE 0)
    /\ UNCHANGED <<next_series_id, series_store, series_store_i32>>

engine_free_series(series_id) ==
    /\ series_store' = IF series_id \in DOMAIN series_store
                       THEN Remove(series_store, series_id)
                       ELSE series_store
    /\ ret' = Ret("engine_free_series", IF series_id \in DOMAIN series_store THEN 1 ELSE 0)
    /\ UNCHANGED <<next_series_id, series_store_i32>>

\* Seeded fault: a free that removes the handle from both tables.
free_series_any_table(series_id) ==
    /\ series_store_i32' = Remove(series_store_i32, series_id)
    /\ series_store' = Remove(series_store, series_id)
    /\ ret' = Ret("engine_free_series_i32",
                  IF series_id \in DOMAIN series_store_i32 THEN 1 ELSE 0)
    /\ UNCHANGED next_series_id

engine_free_series_i32(series_id) ==
    /\ series_store_i32' = IF series_id \in DOMAIN series_store_i32
                           THEN Remove(series_store_i32, series_id)
                           ELSE series_store_i32
    /\ ret' = Ret("engine_free_series_i32",
                  IF series_id \in DOMAIN series_store_i32 THEN 1 ELSE 0)
    /\ UNCHANGED <<next_series_id, series_store>>

\* Seeded fault: a flush that keeps the handle counter.
flush_keeps_counter ==
    /\ series_store' = EmptyStore
    /\ series_store_i32' = EmptyStore
    /\ ret' = Ret("engine_flush", engine_series_count)
    /\ UNCHANGED next_series_id

engine_flush ==
    /\ series_store' = EmptyStore
    /\ series_store_i32' = EmptyStore
    /\ next_series_id' = 0
    /\ ret' = Ret("engine_flush", engine_series_count)

\* ------------------------------------------------------------- series accessors
\* eng.series_store.get(&series_id) with the (null, 0) default of the scalar
\* operations and operators
Lookup(store, series_id) ==
    IF series_id \in DOMAIN store THEN store[series_id]
    ELSE [ptr |-> 0, len |-> 0, buf |-> <<>>]

engine_series_ptr_f64(series_id) ==
    IF series_id \in DOMAIN series_store THEN series_store[series_id].ptr ELSE 0
engine_series_len_f64(series_id) ==
    IF series_id \in DOMAIN series_store THEN series_store[series_id].len ELSE 0
engine_series_ptr_i32(series_id) ==
    IF series_id \in DOMAIN series_store_i32 THEN series_store_i32[series_id].ptr ELSE 0
engine_series_len_i32(series_id) ==
    IF series_id \in DOMAIN series_store_i32 THEN series_store_i32[series_id].len ELSE 0

\* Seeded fault: a copy that stops one element short.
to_vec_f64_short(series_id) ==
    LET e == Lookup(series_store, series_id)
    IN IF e.ptr = 0 \/ e.len = 0 THEN <<>> ELSE SubSeq(e.buf, 1, e.len - 1)

engine_series_to_vec_f64(series_id) ==
    IF series_id \in DOMAIN series_store
    THEN LET e == series_store[series_id]
         IN IF e.ptr = 0 \/ e.len = 0 THEN <<>> ELSE e.buf
    ELSE <<>>
engine_series_to_vec_i32(series_id) ==
    IF series_id \in DOMAIN series_store_i32
    THEN LET e == series_store_i32[series_id]
         IN IF e.ptr = 0 \/ e.len = 0 THEN <<>> ELSE e.buf
    ELSE <<>>

\* The loops of the scalar operations: a left fold over the buffer that skips NaN.
RECURSIVE SumNonNan(_, _)
SumNonNan(buf, i) ==
    IF i = 0 THEN Num(0)
    ELSE LET s == SumNonNan(buf, i - 1)
         IN IF is_nan(buf[i]) THEN s ELSE FAdd(s, buf[i])
CountNonNan(buf) == Cardinality({i \in 1..Len(buf) : ~is_nan(buf[i])})
RECURSIVE SumSqDev(_, _, _)
SumSqDev(buf, i, mean) ==
    IF i = 0 THEN Num(0)
    ELSE LET s == SumSqDev(buf, i - 1, mean)
         IN IF is_nan(buf[i]) THEN s
            ELSE FAdd(s, FMul(FSub(buf[i], mean), FSub(buf[i], mean)))
RECURSIVE MinFrom(_, _, _)
MinFrom(buf, i, m0) ==
    IF i = 0 THEN m0
    ELSE LET m == MinFrom(buf, i - 1, m0)
         IN IF ~is_nan(buf[i]) /\ FLt(buf[i], m) THEN buf[i] ELSE m
RECURSIVE MaxFrom(_, _, _)
MaxFrom(buf, i, m0) ==
    IF i = 0 THEN m0
    ELSE LET m == MaxFrom(buf, i - 1, m0)
         IN IF ~is_nan(buf[i]) /\ FGt(buf[i], m) THEN buf[i] ELSE m

engine_series_sum_f64(series_id) ==
    LET e == Lookup(series_store, series_id)
    IN IF e.ptr = 0 \/ e.len = 0 THEN Num(0) ELSE SumNonNan(e.buf, e.len)

engine_series_mean_f64(series_id) ==
    LET e == Lookup(series_store, series_id)
        cnt == CountNonNan(e.buf)
    IN IF e.ptr = 0 \/ e.len = 0 THEN NaN
       ELSE IF cnt = 0 THEN NaN ELSE FDivInt(SumNonNan(e.buf, e.len), cnt)

\* Seeded fault: the standard deviation of a single value is 0.0.
series_std_single_zero(series_id) ==
    LET e == Lookup(series_store, series_id)
        cnt == CountNonNan(e.buf)
        mean == FDivInt(SumNonNan(e.buf, e.len), cnt)
    IN IF e.ptr = 0 THEN NaN
       ELSE IF cnt = 0 THEN NaN
       ELSE IF cnt = 1 THEN Num(0)
       ELSE FSqrt(FDivInt(SumSqDev(e.buf, e.len, mean), cnt - 1))
engine_series_std_f64(series_id) ==
    LET e == Lookup(series_store, series_id)
        cnt == CountNonNan(e.buf)
        mean == FDivInt(SumNonNan(e.buf, e.len), cnt)
    IN IF e.ptr = 0 THEN NaN
       ELSE IF cnt <= 1 THEN NaN
       ELSE FSqrt(FDivInt(SumSqDev(e.buf, e.len, mean), cnt - 1))

engine_series_min_f64(series_id) ==
    LET e == Lookup(series_store, series_id)
    IN IF e.ptr = 0 \/ e.len = 0 THEN NaN
       ELSE IF CountNonNan(e.buf) > 0 THEN MinFrom(e.buf, e.len, INFINITY) ELSE NaN

engine_series_max_f64(series_id) ==
    LET e == Lookup(series_store, series_id)
    IN IF e.ptr = 0 \/ e.len = 0 THEN NaN
       ELSE IF CountNonNan(e.buf) > 0 THEN MaxFrom(e.buf, e.len, NEG_INFINITY) ELSE NaN

engine_series_count_f64(series_id) ==
    LET e == Lookup(series_store, series_id)
    IN IF e.ptr = 0 THEN 0 ELSE CountNonNan(e.buf)

\* ------------------------------------------------------------- statistics
\* data.iter().filter(|&&x| !x.is_nan()): the non-NaN elements, in order.
IsValidF64(x) == ~is_nan(x)
valid_data(data) == SelectSeq(data, IsValidF64)
\* f64::min and f64::max: the other operand when one is NaN.
f64_min(a, b) == IF is_nan(a) THEN b ELSE IF is_nan(b) THEN a ELSE IF FLt(b, a) THEN b ELSE a
f64_max(a, b) == IF is_nan(a) THEN b ELSE IF is_nan(b) THEN a ELSE IF FGt(b, a) THEN b ELSE a
\* Iterator::sum over q[1..i], from 0.0.
RECURSIVE IterSum(_, _)
IterSum(q, i) == IF i = 0 THEN Num(0) ELSE FAdd(IterSum(q, i - 1), q[i])
\* fold(init, |a, &b| a.min(b)) and its max twin over q[1..i].
RECURSIVE FoldMin(_, _, _)
FoldMin(q, i, init) == IF i = 0 THEN init ELSE f64_min(FoldMin(q, i - 1, init), q[i])
RECURSIVE FoldMax(_, _, _)
FoldMax(q, i, init) == IF i = 0 THEN init ELSE f64_max(FoldMax(q, i - 1, init), q[i])

sum_f64(data) == IterSum(valid_data(data), Len(valid_data(data)))

mean_f64(data) ==
    LET valid == valid_data(data)
    IN IF valid = <<>> THEN NaN ELSE FDivInt(IterSum(valid, Len(valid)), Len(valid))

std_f64(data) ==
    LET valid == valid_data(data)
        mean == FDivInt(IterSum(valid, Len(valid)), Len(valid))
        sq == [i \in 1..Len(valid) |-> FMul(FSub(valid[i], mean), FSub(valid[i], mean))]
    IN IF valid = <<>> THEN NaN
       ELSE IF Len(valid) = 1 THEN Num(0)
       ELSE FSqrt(FDivInt(IterSum(sq, Len(sq)), Len(valid) - 1))

min_f64(data) == FoldMin(valid_data(data), Len(valid_data(data)), INFINITY)

max_f64(data) == FoldMax(valid_data(data), Len(valid_data(data)), NEG_INFINITY)

count_non_null_f64(data) == Len(valid_data(data))

\* ------------------------------------------------------------- filtering
\* Seeded fault: a mask test that keeps only the bytes equal to 1.
RECURSIVE select_mask_one(_, _, _)
select_mask_one(data, mask, i) ==
    IF i = 0 THEN <<>>
    ELSE LET out == select_mask_one(data, mask, i - 1)
         IN IF mask[i] = 1 THEN Append(out, data[i]) ELSE out

\* The elements of data[1..i] whose mask byte is nonzero, in order.
RECURSIVE SelectByMask(_, _, _)
SelectByMask(data, mask, i) ==
    IF i = 0 THEN <<>>
    ELSE LET out == SelectByMask(data, mask, i - 1)
         IN IF mask[i] # 0 THEN Append(out, data[i]) ELSE out

\* The registration block shared by every operator: take the next id, allocate
\* a block for vals, insert it in the f64 table: the tables it can leave.
RegisterF64(store, id, vals) ==
    {Insert(store, id, e) : e \in alloc_buffer(vals)}

\* Seeded fault: the rejection test without the empty-source case.
filter_rejects_nonempty_only(series_id, mask) ==
    LET e == Lookup(series_store, series_id)
    IN e.ptr = 0 \/ Len(mask) # e.len

\* The early return of engine_filter_f64.
filter_rejects(series_id, mask) ==
    LET e == Lookup(series_store, series_id)
    IN e.ptr = 0 \/ e.len = 0 \/ Len(mask) # e.len

engine_filter_f64(series_id, mask) ==
    LET e == Lookup(series_store, series_id)
    IN IF filter_rejects(series_id, mask)
       THEN /\ ret' = Ret("engine_filter_f64", U32_MAX)
            /\ UNCHANGED <<next_series_id, series_store, series_store_i32>>
       ELSE /\ series_store' \in RegisterF64(series_store, next_series_id,
                                              SelectByMask(e.buf, mask, e.len))
            /\ next_series_id' = wrapping_add(next_series_id, 1)
            /\ ret' = Ret("engine_filter_f64", next_series_id)
            /\ UNCHANGED series_store_i32

filter_f64(data, mask) ==
    IF Len(data) # Len(mask) THEN <<>> ELSE SelectByMask(data, mask, Len(data))

\* ------------------------------------------------------------- sorting
\* std::cmp::Ordering and Ordering::reverse
Reverse(o) == CASE o = "Less" -> "Greater" [] o = "Greater" -> "Less" [] OTHER -> "Equal"

\* The `match (a_is_nan, b_is_nan)` block of the f64 comparators.
cmp_f64(val_a, val_b, nulls_last) ==
    CASE is_nan(val_a) /\ is_nan(val_b) -> "Equal"
      [] is_nan(val_a) /\ ~is_nan(val_b) -> IF nulls_last THEN "Greater" ELSE "Less"
      [] ~is_nan(val_a) /\ is_nan(val_b) -> IF nulls_last THEN "Less" ELSE "Greater"
      [] OTHER -> IF FLt(val_a, val_b) THEN "Less"
                  ELSE IF FGt(val_a, val_b) THEN "Greater" ELSE "Equal"

\* The `match (a_is_null, b_is_null)` block of the i32 comparators.
cmp_i32(val_a, val_b, nulls_last) ==
    CASE val_a = I32_MIN /\ val_b = I32_MIN -> "Equal"
      [] val_a = I32_MIN /\ val_b # I32_MIN -> IF nulls_last THEN "Greater" ELSE "Less"
      [] val_a # I32_MIN /\ val_b = I32_MIN -> IF nulls_last THEN "Less" ELSE "Greater"
      [] OTHER -> IF val_a < val_b THEN "Less"
                  ELSE IF val_a > val_b THEN "Greater" ELSE "Equal"

\* Seeded fault: a sort that places rows comparing Equal latest first.
sort_by_unstable(n, cmp) ==
    LET Before(b, a) == cmp[b, a] = "Less" \/ (cmp[b, a] = "Equal" /\ b > a)
        Rank(a) == Cardinality({b \in 0..(n - 1) : Before(b, a)})
    IN [i \in 1..n |-> CHOOSE a \in 0..(n - 1) : Rank(a) = i - 1]

\* <[usize]>::sort_by on (0..n).collect(), the stable sort, under the
\* comparator cmp[a, b].  Row a is placed after the rows that compare Less
\* than it and after the earlier rows that compare Equal to it.
sort_by(n, cmp) ==
    LET Before(b, a) == cmp[b, a] = "Less" \/ (cmp[b, a] = "Equal" /\ b < a)
        Rank(a) == Cardinality({b \in 0..(n - 1) : Before(b, a)})
    IN [i \in 1..n |-> CHOOSE a \in 0..(n - 1) : Rank(a) = i - 1]

sort_single_column_f64(data, ascending, nulls_last) ==
    LET rows == 0..(Len(data) - 1)
        cmp == [a \in rows, b \in rows |->
                  LET comparison == cmp_f64(data[a + 1], data[b + 1], nulls_last)
                  IN IF ascending THEN comparison ELSE Reverse(comparison)]
    IN sort_by(Len(data), cmp)

sort_single_column_i32(data, ascending, nulls_last) ==
    LET rows == 0..(Len(data) - 1)
        cmp == [a \in rows, b \in rows |->
                  LET comparison == cmp_i32(data[a + 1], data[b + 1], nulls_last)
                  IN IF ascending THEN comparison ELSE Reverse(comparison)]
    IN sort_by(Len(data), cmp)

sort_two_columns_f64(col1, col2, asc1, asc2, nulls_last) ==
    LET nulls_last_bool == nulls_last = 1
        rows == 0..(Len(col1) - 1)
        cmp == [a \in rows, b \in rows |->
                  LET comparison1 == cmp_f64(col1[a + 1], col1[b + 1], nulls_last_bool)
                      result1 == IF asc1 = 1 THEN comparison1 ELSE Reverse(comparison1)
                      comparison2 == cmp_f64(col2[a + 1], col2[b + 1], nulls_last_bool)
                  IN IF result1 # "Equal" THEN result1
                     ELSE IF asc2 = 1 THEN comparison2 ELSE Reverse(comparison2)]
    IN IF Len(col1) # Len(col2) THEN <<>> ELSE sort_by(Len(col1), cmp)

sort_two_columns_i32(col1, col2, asc1, asc2, nulls_last) ==
    LET nulls_last_bool == nulls_last = 1
        rows == 0..(Len(col1) - 1)
        cmp == [a \in rows, b \in rows |->
                  LET comparison1 == cmp_i32(col1[a + 1], col1[b + 1], nulls_last_bool)
                      result1 == IF asc1 = 1 THEN comparison1 ELSE Reverse(comparison1)
                      comparison2 == cmp_i32(col2[a + 1], col2[b + 1], nulls_last_bool)
                  IN IF result1 # "Equal" THEN result1
                     ELSE IF asc2 = 1 THEN comparison2 ELSE Reverse(comparison2)]
    IN IF Len(col1) # Len(col2) THEN <<>> ELSE sort_by(Len(col1), cmp)

\* Seeded fault: the values pushed in source order.
permute_in_place(values, idx) == [i \in 1..Len(idx) |-> values[i]]
\* values[idx[1]], values[idx[2]], ...
Permute(values, idx) == [i \in 1..Len(idx) |-> values[idx[i] + 1]]

\* Seeded fault: the rejection test without the empty-source case.
sort_values_rejects_absent_only(series_id) ==
    LET e == Lookup(series_store, series_id)
    IN e.ptr = 0

\* The early return of engine_sort_values_f64.
sort_values_rejects(series_id) ==
    LET e == Lookup(series_store, series_id)
    IN e.ptr = 0 \/ e.len = 0

engine_sort_values_f64(series_id, ascending, nulls_last) ==
    LET e == Lookup(series_store, series_id)
        idx == sort_single_column_f64(e.buf, ascending # 0, nulls_last # 0)
    IN IF sort_values_rejects(series_id)
       THEN /\ ret' = Ret("engine_sort_values_f64", U32_MAX)
            /\ UNCHANGED <<next_series_id, series_store, series_store_i32>>
       ELSE /\ series_store' \in RegisterF64(series_store, next_series_id, Permute(e.buf, idx))
            /\ next_series_id' = wrapping_add(next_series_id, 1)
            /\ ret' = Ret("engine_sort_values_f64",
                          next_series_id)
            /\ UNCHANGED series_store_i32

\* The index-returning entry points read the registry and change nothing.
SortIndicesF64(series_id, ascending, nulls_last) ==
    LET e == Lookup(series_store, series_id)
    IN IF e.ptr = 0 \/ e.len = 0 THEN <<>>
       ELSE sort_single_column_f64(e.buf, ascending # 0, nulls_last # 0)

SortTwoColumnsIndicesF64(series1_id, series2_id, asc1, asc2, nulls_last) ==
    LET e1 == Lookup(series_store, series1_id)
        e2 == Lookup(series_store, series2_id)
    IN IF e1.ptr = 0 \/ e2.ptr = 0 \/ e1.len = 0 \/ e1.len # e2.len THEN <<>>
       ELSE sort_two_columns_f64(e1.buf, e2.buf, asc1, asc2, nulls_last)

SortIndicesI32(series_id, ascending, nulls_last) ==
    LET e == Lookup(series_store_i32, series_id)
    IN IF e.ptr = 0 \/ e.len = 0 THEN <<>>
       ELSE sort_single_column_i32(e.buf, ascending # 0, nulls_last # 0)

SortTwoColumnsIndicesI32(series1_id, series2_id, asc1, asc2, nulls_last) ==
    LET e1 == Lookup(series_store_i32, series1_id)
        e2 == Lookup(series_store_i32, series2_id)
    IN IF e1.ptr = 0 \/ e2.ptr = 0 \/ e1.len = 0 \/ e1.len # e2.len THEN <<>>
       ELSE sort_two_columns_i32(e1.buf, e2.buf, asc1, asc2, nulls_last)

ReadOnly(op, val) ==
    /\ ret' = Ret(op, val)
    /\ UNCHANGED <<registry, input>>

engine_sort_indices_f64(series_id, ascending, nulls_last) ==
    ReadOnly("engine_sort_indices_f64",
             SortIndicesF64(series_id, ascending, nulls_last))
engine_sort_two_columns_indices_f64(series1_id, series2_id, asc1, asc2, nulls_last) ==
    ReadOnly("engine_sort_two_columns_indices_f64",
             SortTwoColumnsIndicesF64(series1_id, series2_id, asc1, asc2, nulls_last))
engine_sort_indices_i32(series_id, ascending, nulls_last) ==
    ReadOnly("engine_sort_indices_i32",
             SortIndicesI32(series_id, ascending, nulls_last))
engine_sort_two_columns_indices_i32(series1_id, series2_id, asc1, asc2, nulls_last) ==
    ReadOnly("engine_sort_two_columns_indices_i32",
             SortTwoColumnsIndicesI32(series1_id, series2_id, asc1, asc2, nulls_last))

\* ------------------------------------------------------------- groupby
\* A key is a String, modelled as its sequence of bytes; String's Ord is the
\* lexicographic order of the bytes.
RECURSIVE StrLess(_, _)
StrLess(x, y) ==
    IF y = <<>> THEN FALSE
    ELSE IF x = <<>> THEN TRUE
    ELSE IF Head(x) # Head(y) THEN Head(x) < Head(y)
    ELSE StrLess(Tail(x), Tail(y))

\* Seeded fault: the keys in descending order.
sorted_keys_descending(ks) ==
    LET Rank(k) == Cardinality({j \in ks : StrLess(k, j)})
    IN [i \in 1..Cardinality(ks) |-> CHOOSE k \in ks : Rank(k) = i - 1]

\* sorted_keys.sort() on the keys of a map: the set ks in ascending order.
SortedKeys(ks) ==
    LET Rank(k) == Cardinality({j \in ks : StrLess(j, k)})
    IN [i \in 1..Cardinality(ks) |-> CHOOSE k \in ks : Rank(k) = i - 1]

\* Seeded fault: a parse that drops the items that are not strings.
IsStringItem(it) == it.t = "string"
parse_keys_lenient(group_keys_json) ==
    IF group_keys_json.t = "array"
    THEN LET strs == SelectSeq(group_keys_json.items, IsStringItem)
         IN [i \in 1..Len(strs) |-> strs[i].s]
    ELSE <<>>
\* The group_keys_json argument is a JSON text, modelled by the document it
\* holds: [t |-> "array", items |-> <<[t |-> "string" or "number", s |-> bytes]>>],
\* or t = "invalid" for a text that is no JSON array.
\* serde_json::from_str::<Vec<String>>(..).unwrap_or_default()
ParseKeys(group_keys_json) ==
    IF /\ group_keys_json.t = "array"
       /\ \A i \in 1..Len(group_keys_json.items) : group_keys_json.items[i].t = "string"
    THEN [i \in 1..Len(group_keys_json.items) |-> group_keys_json.items[i].s]
    ELSE <<>>

AllKeys(keys) == {keys[i] : i \in 1..Len(keys)}
\* The keys a map filled only on non-NaN rows ends with.
SeenKeys(keys, buf) == {keys[i] : i \in {j \in 1..Len(keys) : ~is_nan(buf[j])}}

\* Per-key accumulators over rows 1..i, in row order, skipping NaN.
RECURSIVE KeySum(_, _, _, _)
KeySum(keys, buf, k, i) ==
    IF i = 0 THEN Num(0)
    ELSE LET s == KeySum(keys, buf, k, i - 1)
         IN IF keys[i] = k /\ ~is_nan(buf[i]) THEN FAdd(s, buf[i]) ELSE s
KeyCount(keys, buf, k) ==
    Cardinality({i \in 1..Len(keys) : keys[i] = k /\ ~is_nan(buf[i])})
\* entry(key).and_modify(|m| if v < *m { *m = v }).or_insert(v); NaN: no entry yet
RECURSIVE KeyMin(_, _, _, _)
KeyMin(keys, buf, k, i) ==
    IF i = 0 THEN NaN
    ELSE LET m == KeyMin(keys, buf, k, i - 1)
         IN IF keys[i] = k /\ ~is_nan(buf[i])
            THEN IF is_nan(m) \/ FLt(buf[i], m) THEN buf[i] ELSE m
            ELSE m
RECURSIVE KeyMax(_, _, _, _)
KeyMax(keys, buf, k, i) ==
    IF i = 0 THEN NaN
    ELSE LET m == KeyMax(keys, buf, k, i - 1)
         IN IF keys[i] = k /\ ~is_nan(buf[i])
            THEN IF is_nan(m) \/ FGt(buf[i], m) THEN buf[i] ELSE m
            ELSE m
\* means: sum / count for the keys of counts
KeyMean(keys, buf, k) ==
    IF KeyCount(keys, buf, k) > 0
    THEN FDivInt(KeySum(keys, buf, k, Len(keys)), KeyCount(keys, buf, k))
    ELSE NaN
\* sumsqdiff: the second pass
RECURSIVE KeySumSq(_, _, _, _)
KeySumSq(keys, buf, k, i) ==
    IF i = 0 THEN Num(0)
    ELSE LET s == KeySumSq(keys, buf, k, i - 1)
             m == KeyMean(keys, buf, k)
         IN IF keys[i] = k /\ ~is_nan(buf[i]) /\ ~is_nan(m)
            THEN FAdd(s, FMul(FSub(buf[i], m), FSub(buf[i], m)))
            ELSE s
KeyVar(keys, buf, k) ==
    IF KeyCount(keys, buf, k) > 1
    THEN FDivInt(KeySumSq(keys, buf, k, Len(keys)), KeyCount(keys, buf, k) - 1)
    ELSE NaN
KeyStd(keys, buf, k) ==
    IF KeyCount(keys, buf, k) > 1
    THEN FSqrt(FDivInt(KeySumSq(keys, buf, k, Len(keys)), KeyCount(keys, buf, k) - 1))
    ELSE NaN

\* The results vector of each single-aggregate entry point.
groupby_sum_results(keys, buf) ==
    LET sorted_keys == SortedKeys(AllKeys(keys))
    IN [i \in 1..Len(sorted_keys) |-> KeySum(keys, buf, sorted_keys[i], Len(keys))]
groupby_mean_results(keys, buf) ==
    LET sorted_keys == SortedKeys(SeenKeys(keys, buf))
    IN [i \in 1..Len(sorted_keys) |-> KeyMean(keys, buf, sorted_keys[i])]
\* Seeded fault: count over the keys that have a non-NaN row only.
groupby_count_results_seen(keys, buf) ==
    LET sorted_keys == SortedKeys(SeenKeys(keys, buf))
    IN [i \in 1..Len(sorted_keys) |-> Num(KeyCount(keys, buf, sorted_keys[i]))]
groupby_count_results(keys, buf) ==
    LET sorted_keys == SortedKeys(AllKeys(keys))
    IN [i \in 1..Len(sorted_keys) |-> Num(KeyCount(keys, buf, sorted_keys[i]))]
groupby_min_results(keys, buf) ==
    LET sorted_keys == SortedKeys(SeenKeys(keys, buf))
    IN [i \in 1..Len(sorted_keys) |-> KeyMin(keys, buf, sorted_keys[i], Len(keys))]
groupby_max_results(keys, buf) ==
    LET sorted_keys == SortedKeys(SeenKeys(keys, buf))
    IN [i \in 1..Len(sorted_keys) |-> KeyMax(keys, buf, sorted_keys[i], Len(keys))]
groupby_std_results(keys, buf) ==
    LET sorted_keys == SortedKeys(SeenKeys(keys, buf))
    IN [i \in 1..Len(sorted_keys) |-> KeyStd(keys, buf, sorted_keys[i])]
groupby_var_results(keys, buf) ==
    LET sorted_keys == SortedKeys(SeenKeys(keys, buf))
    IN [i \in 1..Len(sorted_keys) |-> KeyVar(keys, buf, sorted_keys[i])]

\* Seeded fault: a key vector shorter than the source is accepted.
groupby_rejects_longer_only(series_id, group_keys_json) ==
    LET keys == ParseKeys(group_keys_json)
        e == Lookup(series_store, series_id)
    IN e.ptr = 0 \/ Len(keys) > e.len
\* The shape every single-aggregate entry point shares: parse the keys, look
\* the series up, fail on a null pointer or a length mismatch, else register
\* the results.
groupby_rejects(series_id, group_keys_json) ==
    LET keys == ParseKeys(group_keys_json)
        e == Lookup(series_store, series_id)
    IN e.ptr = 0 \/ Len(keys) # e.len

GroupBySingle(op, series_id, group_keys_json, results) ==
    IF groupby_rejects(series_id, group_keys_json)
       THEN /\ ret' = Ret(op, U32_MAX)
            /\ UNCHANGED <<next_series_id, series_store, series_store_i32>>
       ELSE /\ series_store' \in RegisterF64(series_store, next_series_id, results)
            /\ next_series_id' = wrapping_add(next_series_id, 1)
            /\ ret' = Ret(op, next_series_id)
            /\ UNCHANGED series_store_i32

engine_groupby_sum_f64(series_id, group_keys_json) ==
    GroupBySingle("engine_groupby_sum_f64", series_id, group_keys_json,
        groupby_sum_results(ParseKeys(group_keys_json), Lookup(series_store, series_id).buf))
engine_groupby_mean_f64(series_id, group_keys_json) ==
    GroupBySingle("engine_groupby_mean_f64", series_id, group_keys_json,
        groupby_mean_results(ParseKeys(group_keys_json), Lookup(series_store, series_id).buf))
engine_groupby_count_f64(series_id, group_keys_json) ==
    GroupBySingle("engine_groupby_count_f64", series_id, group_keys_json,
        groupby_count_results(ParseKeys(group_keys_json), Lookup(series_store, series_id).buf))
engine_groupby_min_f64(series_id, group_keys_json) ==
    GroupBySingle("engine_groupby_min_f64", series_id, group_keys_json,
        groupby_min_results(ParseKeys(group_keys_json), Lookup(series_store, series_id).buf))
engine_groupby_max_f64(series_id, group_keys_json) ==
    GroupBySingle("engine_groupby_max_f64", series_id, group_keys_json,
        groupby_max_results(ParseKeys(group_keys_json), Lookup(series_store, series_id).buf))
engine_groupby_std_f64(series_id, group_keys_json) ==
    GroupBySingle("engine_groupby_std_f64", series_id, group_keys_json,
        groupby_std_results(ParseKeys(group_keys_json), Lookup(series_store, series_id).buf))
engine_groupby_var_f64(series_id, group_keys_json) ==
    GroupBySingle("engine_groupby_var_f64", series_id, group_keys_json,
        groupby_var_results(ParseKeys(group_keys_json), Lookup(series_store, series_id).buf))

\* agg_mask & bit != 0
Bit(agg_mask, bit) == (agg_mask \div bit) % 2 = 1

\* ordered_keys of the batched entry point: the keys of counts, or when counts
\* is empty the keys seen in sums, mins and maxs.
multi_ordered_keys(keys, buf, agg_mask) ==
    LET need_sum == Bit(agg_mask, 1) \/ Bit(agg_mask, 2) \/ Bit(agg_mask, 32) \/ Bit(agg_mask, 64)
        need_count == Bit(agg_mask, 4) \/ Bit(agg_mask, 2) \/ Bit(agg_mask, 32) \/ Bit(agg_mask, 64)
        need_min == Bit(agg_mask, 8)
        need_max == Bit(agg_mask, 16)
        seen == SeenKeys(keys, buf)
        counts_keys == IF need_count THEN seen ELSE {}
        fallback == (IF need_sum THEN seen ELSE {}) \cup (IF need_min THEN seen ELSE {})
                    \cup (IF need_max THEN seen ELSE {})
    IN SortedKeys(IF counts_keys = {} THEN fallback ELSE counts_keys)

\* The vals vector registered for one bit of the mask.
multi_vals(keys, buf, agg_mask, bit) ==
    LET ordered_keys == multi_ordered_keys(keys, buf, agg_mask)
        n == Len(keys)
    IN [i \in 1..Len(ordered_keys) |->
          LET k == ordered_keys[i]
          IN CASE bit = 1 -> KeySum(keys, buf, k, n)
               [] bit = 2 -> KeyMean(keys, buf, k)
               [] bit = 4 -> Num(KeyCount(keys, buf, k))
               [] bit = 8 -> KeyMin(keys, buf, k, n)
               [] bit = 16 -> KeyMax(keys, buf, k, n)
               [] bit = 32 -> KeyStd(keys, buf, k)
               [] bit = 64 -> KeyVar(keys, buf, k)]

AggBits == <<1, 2, 4, 8, 16, 32, 64>>
\* Seeded fault: the outputs pushed from the highest bit down.
RECURSIVE set_bits_descending(_, _)
set_bits_descending(agg_mask, i) ==
    IF i = 0 THEN <<>>
    ELSE IF Bit(agg_mask, AggBits[i]) THEN <<AggBits[i]>> \o set_bits_descending(agg_mask, i - 1)
    ELSE set_bits_descending(agg_mask, i - 1)
\* The set bits of agg_mask among AggBits[1..i], ascending.
RECURSIVE SetBits(_, _)
SetBits(agg_mask, i) ==
    IF i = 0 THEN <<>>
    ELSE IF Bit(agg_mask, AggBits[i]) THEN Append(SetBits(agg_mask, i - 1), AggBits[i])
    ELSE SetBits(agg_mask, i - 1)

\* register_vec applied to vecs[1..i] in turn, from table store and id first:
\* the tables it can leave.
RECURSIVE RegisterAll(_, _, _, _)
RegisterAll(store, first, vecs, i) ==
    IF i = 0 THEN {store}
    ELSE UNION {RegisterF64(st, wrapping_add(first, i - 1), vecs[i]) :
                    st \in RegisterAll(store, first, vecs, i - 1)}

engine_groupby_multi_f64(series_id, group_keys_json, agg_mask) ==
    LET keys == ParseKeys(group_keys_json)
        e == Lookup(series_store, series_id)
        bits == SetBits(agg_mask, 7)
        vecs == [j \in 1..Len(bits) |-> multi_vals(keys, e.buf, agg_mask, bits[j])]
        out_ids == [j \in 1..Len(bits) |-> wrapping_add(next_series_id, j - 1)]
    IN IF groupby_rejects(series_id, group_keys_json)
       THEN /\ ret' = Ret("engine_groupby_multi_f64", <<>>)
            /\ UNCHANGED <<next_series_id, series_store, series_store_i32>>
       ELSE /\ series_store' \in RegisterAll(series_store, next_series_id, vecs, Len(bits))
            /\ next_series_id' = wrapping_add(next_series_id, Len(bits))
            /\ ret' = Ret("engine_groupby_multi_f64",
                          out_ids)
            /\ UNCHANGED series_store_i32

\* ------------------------------------------------------------- specification
Init ==
    /\ next_series_id = 0
    /\ series_store = EmptyStore
    /\ series_store_i32 = EmptyStore
    /\ input = <<>>
    /\ ret = Ret("init", 0)

\* Inputs of the calls.
KeyStrs == {<<97>>, <<98>>}
StrItem(k) == [t |-> "string", s |-> k]
NumItem == [t |-> "number", s |-> <<49>>]
KeyDocs ==
    {[t |-> "array", items |-> it] : it \in SeqsUpTo({StrItem(k) : k \in KeyStrs}, MaxLen + 1)}
    \cup {[t |-> "invalid", items |-> <<>>], [t |-> "array", items |-> <<NumItem>>]}
Masks == SeqsUpTo(Bytes, MaxLen + 1)
AggMasks == {0, 1, 2, 4, 8, 16, 32, 64, 5}

\* A call that registers k series needs room for them (the bound on the
\* registry's size); a call that fails needs none.
CreateF64 == \E data \in F64Seqs : Room(1) /\ engine_create_series_f64(data) /\ UNCHANGED input
CreateI32 == \E data \in I32Seqs : Room(1) /\ engine_create_series_i32(data) /\ UNCHANGED input
FreeF64 == \E h \in Handles : engine_free_series(h) /\ UNCHANGED input
FreeI32 == \E h \in Handles : engine_free_series_i32(h) /\ UNCHANGED input
Flush == engine_flush /\ UNCHANGED input
Filter ==
    \E h \in Handles, mask \in Masks :
        /\ ~filter_rejects(h, mask) => Room(1)
        /\ engine_filter_f64(h, mask)
        /\ UNCHANGED input
SortValues ==
    \E h \in Handles, ascending \in Bytes, nulls_last \in Bytes :
        /\ ~sort_values_rejects(h) => Room(1)
        /\ engine_sort_values_f64(h, ascending, nulls_last)
        /\ UNCHANGED input
GroupBySum ==
    \E h \in Handles, doc \in KeyDocs :
        /\ ~groupby_rejects(h, doc) => Room(1)
        /\ engine_groupby_sum_f64(h, doc)
        /\ UNCHANGED input
GroupByMean ==
    \E h \in Handles, doc \in KeyDocs :
        /\ ~groupby_rejects(h, doc) => Room(1)
        /\ engine_groupby_mean_f64(h, doc)
        /\ UNCHANGED input
GroupByCount ==
    \E h \in Handles, doc \in KeyDocs :
        /\ ~groupby_rejects(h, doc) => Room(1)
        /\ engine_groupby_count_f64(h, doc)
        /\ UNCHANGED input
GroupByMin ==
    \E h \in Handles, doc \in KeyDocs :
        /\ ~groupby_rejects(h, doc) => Room(1)
        /\ engine_groupby_min_f64(h, doc)
        /\ UNCHANGED input
GroupByMax ==
    \E h \in Handles, doc \in KeyDocs :
        /\ ~groupby_rejects(h, doc) => Room(1)
        /\ engine_groupby_max_f64(h, doc)
        /\ UNCHANGED input
GroupByStd ==
    \E h \in Handles, doc \in KeyDocs :
        /\ ~groupby_rejects(h, doc) => Room(1)
        /\ engine_groupby_std_f64(h, doc)
        /\ UNCHANGED input
GroupByVar ==
    \E h \in Handles, doc \in KeyDocs :
        /\ ~groupby_rejects(h, doc) => Room(1)
        /\ engine_groupby_var_f64(h, doc)
        /\ UNCHANGED input
GroupByMulti ==
    \E h \in Handles, doc \in KeyDocs, agg_mask \in AggMasks :
        /\ ~groupby_rejects(h, doc) => Room(Len(SetBits(agg_mask, 7)))
        /\ engine_groupby_multi_f64(h, doc, agg_mask)
        /\ UNCHANGED input

Next ==
    \/ CreateF64
    \/ CreateI32
    \/ FreeF64
    \/ FreeI32
    \/ Flush
    \/ Filter
    \/ SortValues
    \/ GroupBySum
    \/ GroupByMean
    \/ GroupByCount
    \/ GroupByMin
    \/ GroupByMax
    \/ GroupByStd
    \/ GroupByVar
    \/ GroupByMulti

Spec == Init /\ [][Next]_vars

\* ------------------------------------------------- specification: filtering
\* One source and one mask, drawn at the start; the source is registered as
\* handle 0 and filtered through the registry, and filtered directly.
FilterLen == 3
FilterExample == [data |-> <<Num(1), Num(2), Num(3), Num(4)>>, mask |-> <<1, 0, 1, 0>>]
FilterInputs ==
    [data : SeqsUpTo(F64Vals, FilterLen), mask : SeqsUpTo(Bytes, FilterLen + 1)]
    \cup {FilterExample}
FilterInit ==
    /\ next_series_id = 0
    /\ series_store = EmptyStore
    /\ series_store_i32 = EmptyStore
    /\ input \in FilterInputs
    /\ ret = Ret("init", 0)
FilterLoad ==
    /\ next_series_id = 0
    /\ engine_create_series_f64(input.data)
    /\ UNCHANGED input
FilterEngine ==
    /\ ~filter_rejects(0, input.mask) => Room(1)
    /\ engine_filter_f64(0, input.mask)
    /\ UNCHANGED input
FilterDirect == ReadOnly("filter_f64", filter_f64(input.data, input.mask))
FilterNext == FilterLoad \/ FilterEngine \/ FilterDirect
SpecFilter == FilterInit /\ [][FilterNext]_vars

\* --------------------------------------------------- specification: sorting
\* Two columns of one type and the three flag bytes, drawn at the start.  The
\* columns are registered as handles 0 and 1 and sorted through every entry
\* point; the boolean parameters of the direct single-column functions are
\* the flags' "# 0" readings.
SortLen == 2
SortColumns(S) ==
    {c \in SeqsUpTo(S, SortLen) \X SeqsUpTo(S, SortLen) :
        Len(c[2]) \in {Len(c[1]), Len(c[1]) - 1, 0}}
SortInputs(t, S) ==
    {[ty |-> t, col1 |-> c[1], col2 |-> c[2], asc1 |-> f[1], asc2 |-> f[2],
      nulls_last |-> f[3]] :
        c \in SortColumns(S), f \in Bytes \X Bytes \X Bytes}
SortExample ==
    [ty |-> "f64", col1 |-> <<Num(3), NaN, Num(1), NaN, Num(2)>>, col2 |-> <<>>,
     asc1 |-> 1, asc2 |-> 1, nulls_last |-> 1]
SortInit ==
    /\ next_series_id = 0
    /\ series_store = EmptyStore
    /\ series_store_i32 = EmptyStore
    /\ \/ input \in SortInputs("f64", F64Vals)
       \/ input \in SortInputs("i32", I32Vals)
       \/ input = SortExample
    /\ ret = Ret("init", 0)
SortCreate(data) ==
    /\ IF input.ty = "f64" THEN engine_create_series_f64(data)
                           ELSE engine_create_series_i32(data)
    /\ UNCHANGED input
SortLoad1 == next_series_id = 0 /\ SortCreate(input.col1)
SortLoad2 == next_series_id = 1 /\ SortCreate(input.col2)
SortSingleF64 ==
    /\ input.ty = "f64"
    /\ ReadOnly("sort_single_column_f64",
                sort_single_column_f64(input.col1, input.asc1 # 0, input.nulls_last # 0))
SortSingleI32 ==
    /\ input.ty = "i32"
    /\ ReadOnly("sort_single_column_i32",
                sort_single_column_i32(input.col1, input.asc1 # 0, input.nulls_last # 0))
SortTwoF64 ==
    /\ input.ty = "f64"
    /\ ReadOnly("sort_two_columns_f64",
                sort_two_columns_f64(input.col1, input.col2, input.asc1, input.asc2,
                                     input.nulls_last))
SortTwoI32 ==
    /\ input.ty = "i32"
    /\ ReadOnly("sort_two_columns_i32",
                sort_two_columns_i32(input.col1, input.col2, input.asc1, input.asc2,
                                     input.nulls_last))
SortIndicesF64Call == engine_sort_indices_f64(0, input.asc1, input.nulls_last)
SortIndicesI32Call == engine_sort_indices_i32(0, input.asc1, input.nulls_last)
SortTwoIndicesF64Call ==
    engine_sort_two_columns_indices_f64(0, 1, input.asc1, input.asc2, input.nulls_last)
SortTwoIndicesI32Call ==
    engine_sort_two_columns_indices_i32(0, 1, input.asc1, input.asc2, input.nulls_last)
SortValuesCall ==
    /\ ~sort_values_rejects(0) => Room(1)
    /\ engine_sort_values_f64(0, input.asc1, input.nulls_last)
    /\ UNCHANGED input
SortNext ==
    \/ SortLoad1
    \/ SortLoad2
    \/ SortSingleF64
    \/ SortSingleI32
    \/ SortTwoF64
    \/ SortTwoI32
    \/ SortIndicesF64Call
    \/ SortIndicesI32Call
    \/ SortTwoIndicesF64Call
    \/ SortTwoIndicesI32Call
    \/ SortValuesCall
SpecSort == SortInit /\ [][SortNext]_vars

\* --------------------------------------------------- specification: groupby
\* One source and one key argument, drawn at the start.  The source is
\* registered as handle 0 and aggregated once, by one of the single-aggregate
\* entry points or by the batched one under a mask that leaves its outputs
\* room beside the source; the calls are also made before the source is
\* registered.
GroupLen == 2
GroupKeyStrs == {<<97, 98>>, <<98>>}
Repeat(x, n) == [i \in 1..n |-> x]
ArrayDoc(items) == [t |-> "array", items |-> items]
\* The key arguments tried on a source of n rows: every array of n keys, an
\* array one key longer and one shorter, a text that is no JSON, and an array
\* of n strings followed by a number.
GroupDocs(n) ==
    {ArrayDoc(it) : it \in [1..n -> {StrItem(k) : k \in GroupKeyStrs}]}
    \cup {ArrayDoc(Repeat(StrItem(<<98>>), n + 1)),
          ArrayDoc(Repeat(StrItem(<<98>>), IF n = 0 THEN 1 ELSE n - 1)),
          [t |-> "invalid", items |-> <<>>],
          ArrayDoc(Append(Repeat(StrItem(<<98>>), n), NumItem))}
GroupExample ==
    [data |-> <<Num(10), Num(20), Num(30), Num(40)>>,
     keys |-> ArrayDoc(<<StrItem(<<98>>), StrItem(<<97>>), StrItem(<<98>>), StrItem(<<97>>)>>)]
GroupMasks == {m \in 0..127 : Len(SetBits(m, 7)) < HandleSpace}
GroupInit ==
    /\ next_series_id = 0
    /\ series_store = EmptyStore
    /\ series_store_i32 = EmptyStore
    /\ \/ \E d \in SeqsUpTo(F64Vals, GroupLen) :
             \E k \in GroupDocs(Len(d)) : input = [data |-> d, keys |-> k]
       \/ input = GroupExample
    /\ ret = Ret("init", 0)
GroupLoad ==
    /\ next_series_id = 0
    /\ engine_create_series_f64(input.data)
    /\ UNCHANGED input
GroupSumCall ==
    /\ engine_series_count <= 1
    /\ engine_groupby_sum_f64(0, input.keys)
    /\ UNCHANGED input
GroupMeanCall ==
    /\ engine_series_count <= 1
    /\ engine_groupby_mean_f64(0, input.keys)
    /\ UNCHANGED input
GroupCountCall ==
    /\ engine_series_count <= 1
    /\ engine_groupby_count_f64(0, input.keys)
    /\ UNCHANGED input
GroupMinCall ==
    /\ engine_series_count <= 1
    /\ engine_groupby_min_f64(0, input.keys)
    /\ UNCHANGED input
GroupMaxCall ==
    /\ engine_series_count <= 1
    /\ engine_groupby_max_f64(0, input.keys)
    /\ UNCHANGED input
GroupStdCall ==
    /\ engine_series_count <= 1
    /\ engine_groupby_std_f64(0, input.keys)
    /\ UNCHANGED input
GroupVarCall ==
    /\ engine_series_count <= 1
    /\ engine_groupby_var_f64(0, input.keys)
    /\ UNCHANGED input
GroupMultiCall ==
    /\ engine_series_count <= 1
    /\ \E m \in GroupMasks : engine_groupby_multi_f64(0, input.keys, m)
    /\ UNCHANGED input
GroupNext ==
    \/ GroupLoad
    \/ GroupSumCall
    \/ GroupMeanCall
    \/ GroupCountCall
    \/ GroupMinCall
    \/ GroupMaxCall
    \/ GroupStdCall
    \/ GroupVarCall
    \/ GroupMultiCall
SpecGroupBy == GroupInit /\ [][GroupNext]_vars

\* ------------------------------------------ specification: scalar reductions
\* input is the data of the series the reductions read; it is created as handle
\* 0, may be freed again, and every reduction is called on handle 0 before,
\* during and after its life. The direct statistics are called on input itself.
StatsLen == 3
StatsInit ==
    /\ next_series_id = 0
    /\ series_store = EmptyStore
    /\ series_store_i32 = EmptyStore
    /\ input \in SeqsUpTo(F64Vals, StatsLen)
    /\ ret = Ret("init", 0)
StatsLoad ==
    /\ next_series_id = 0
    /\ engine_create_series_f64(input)
    /\ UNCHANGED input
StatsFree ==
    /\ engine_free_series(0)
    /\ UNCHANGED input
StatsSum == ReadOnly("engine_series_sum_f64", engine_series_sum_f64(0))
StatsMean == ReadOnly("engine_series_mean_f64", engine_series_mean_f64(0))
StatsStd == ReadOnly("engine_series_std_f64", engine_series_std_f64(0))
StatsMin == ReadOnly("engine_series_min_f64", engine_series_min_f64(0))
StatsMax == ReadOnly("engine_series_max_f64", engine_series_max_f64(0))
StatsCount == ReadOnly("engine_series_count_f64", engine_series_count_f64(0))
DirectSum == ReadOnly("sum_f64", sum_f64(input))
DirectMean == ReadOnly("mean_f64", mean_f64(input))
DirectStd == ReadOnly("std_f64", std_f64(input))
DirectMin == ReadOnly("min_f64", min_f64(input))
DirectMax == ReadOnly("max_f64", max_f64(input))
DirectCount == ReadOnly("count_non_null_f64", count_non_null_f64(input))
StatsNext ==
    \/ DirectSum
    \/ DirectMean
    \/ DirectStd
    \/ DirectMin
    \/ DirectMax
    \/ DirectCount
    \/ StatsLoad
    \/ StatsFree
    \/ StatsSum
    \/ StatsMean
    \/ StatsStd
    \/ StatsMin
    \/ StatsMax
    \/ StatsCount
SpecStats == StatsInit /\ [][StatsNext]_vars

\* ------------------------------------------------------------- properties
Live == DOMAIN series_store \cup DOMAIN series_store_i32
Range(q) == {q[i] : i \in 1..Len(q)}
CreateOps == {"engine_create_series_f64", "engine_create_series_i32"}
FreeOps == {"engine_free_series", "engine_free_series_i32"}
OperatorOps ==
    {"engine_filter_f64", "engine_sort_values_f64", "engine_groupby_sum_f64",
     "engine_groupby_mean_f64", "engine_groupby_count_f64", "engine_groupby_min_f64",
     "engine_groupby_max_f64", "engine_groupby_std_f64", "engine_groupby_var_f64"}
\* How far a step advanced the handle counter.
Advance == (next_series_id' - next_series_id + HandleSpace) % HandleSpace
\* The handles a step issued, in order: those of the batched groupby, the one
\* of a create, the one of an operator that advanced the counter.
Issued ==
    IF ret'.op = "engine_groupby_multi_f64" THEN ret'.val
    ELSE IF ret'.op \in CreateOps THEN <<ret'.val>>
    ELSE IF ret'.op \in OperatorOps /\ Advance = 1 THEN <<ret'.val>>
    ELSE <<>>

\* C1: in every reachable state no handle is a key of both tables, and a
\* series-creating call never returns a handle that is live when it is issued
\* (nor the same handle twice).
C1_HandlesUnique ==
    [][/\ DOMAIN series_store' \cap DOMAIN series_store_i32' = {}
       /\ Range(Issued) \cap Live = {}
       /\ Cardinality(Range(Issued)) = Len(Issued)]_vars

\* The action properties below are written "consequence \/ ~call": the call
\* is matched against a step only when the consequence fails on it.

\* C2: to_vec of the handle a create just returned is the created sequence.
C2_RoundTrip ==
    [][/\ ret'.op = "engine_create_series_f64" =>
            \A x \in F64Seqs :
               engine_series_to_vec_f64(ret.val)' = x \/ ~engine_create_series_f64(x)
       /\ ret'.op = "engine_create_series_i32" =>
            \A x \in I32Seqs :
               engine_series_to_vec_i32(ret.val)' = x \/ ~engine_create_series_i32(x)]_vars
C2_Witness ==
    /\ ret.op = "engine_create_series_f64"
    /\ engine_series_count = 2
    /\ engine_series_to_vec_f64(ret.val) = <<Num(2)>>

\* C3: after engine_free_series(h) on a live f64 handle every accessor on h
\* answers as for an absent handle.
AbsentF64(h) ==
    /\ engine_series_len_f64(h) = 0
    /\ engine_series_ptr_f64(h) = 0
    /\ engine_series_to_vec_f64(h) = <<>>
    /\ engine_series_sum_f64(h) = Num(0)
    /\ is_nan(engine_series_mean_f64(h))
    /\ is_nan(engine_series_std_f64(h))
    /\ is_nan(engine_series_min_f64(h))
    /\ is_nan(engine_series_max_f64(h))
    /\ engine_series_count_f64(h) = 0
C3_FreedIsAbsent ==
    [][ret'.op = "engine_free_series" =>
          \A h \in DOMAIN series_store : AbsentF64(h)' \/ ~engine_free_series(h)]_vars
C3_Witness ==
    /\ ret = Ret("engine_free_series", 1)
    /\ engine_series_count = 1
    /\ \E h \in Handles \ Live : h # next_series_id /\ AbsentF64(h)

\* C4: freeing an absent handle changes neither table, nor the counter, nor
\* series_count, nor memory_usage.
NothingChanged ==
    /\ UNCHANGED registry
    /\ engine_series_count' = engine_series_count
    /\ engine_memory_usage' = engine_memory_usage
C4_FreeAbsentNoOp ==
    [][/\ ret'.op = "engine_free_series" =>
            \A h \in Handles \ DOMAIN series_store :
               NothingChanged \/ ~engine_free_series(h)
       /\ ret'.op = "engine_free_series_i32" =>
            \A h \in Handles \ DOMAIN series_store_i32 :
               NothingChanged \/ ~engine_free_series_i32(h)]_vars
C4_Witness ==
    /\ ret = Ret("engine_free_series", 0)
    /\ DOMAIN series_store # {}
    /\ DOMAIN series_store_i32 # {}

\* C5: after engine_flush series_count and memory_usage are 0 and the next
\* series-creating call returns handle 0.
C5_FlushClears ==
    [][/\ engine_flush => (engine_series_count' = 0 /\ engine_memory_usage' = 0)
       /\ (ret.op = "engine_flush" /\ Len(Issued) > 0) => Issued[1] = 0]_vars
C5_Witness ==
    /\ ret = Ret("engine_flush", 2)
    /\ engine_series_count = 0
    /\ engine_memory_usage = 0
    /\ next_series_id = 0
\* C6: one counter serves both tables and the operator outputs: away from
\* flush, a step issues exactly the counter's value (and the following ones, for
\* a batch) and advances it by the number issued; a free never moves it.
C6_SharedCounter ==
    [][ret'.op # "engine_flush" =>
          /\ Advance = Len(Issued)
          /\ \A j \in 1..Len(Issued) : Issued[j] = wrapping_add(next_series_id, j - 1)
          /\ ret'.op \in FreeOps => next_series_id' = next_series_id]_vars
C6_Witness ==
    /\ ret = Ret("engine_create_series_i32", 1)
    /\ DOMAIN series_store = {0}
    /\ DOMAIN series_store_i32 = {1}
    /\ next_series_id = wrapping_add(1, 1)

\* Every series live before the step is live after it with the same entry.
Preserved ==
    /\ \A g \in DOMAIN series_store :
          g \in DOMAIN series_store' /\ series_store'[g] = series_store[g]
    /\ \A g \in DOMAIN series_store_i32 :
          g \in DOMAIN series_store_i32' /\ series_store_i32'[g] = series_store_i32[g]
SingleGroupBy(op, h, keys) ==
    CASE op = "engine_groupby_sum_f64" -> engine_groupby_sum_f64(h, keys)
      [] op = "engine_groupby_mean_f64" -> engine_groupby_mean_f64(h, keys)
      [] op = "engine_groupby_count_f64" -> engine_groupby_count_f64(h, keys)
      [] op = "engine_groupby_min_f64" -> engine_groupby_min_f64(h, keys)
      [] op = "engine_groupby_max_f64" -> engine_groupby_max_f64(h, keys)
      [] op = "engine_groupby_std_f64" -> engine_groupby_std_f64(h, keys)
      [] op = "engine_groupby_var_f64" -> engine_groupby_var_f64(h, keys)
      [] OTHER -> FALSE

\* C7: a successful filter, sort_values or groupby call reading h returns a
\* handle other than h and leaves h and every other live series as they were.
C7_OperatorOutputsFresh ==
    [][\A h \in IF Len(Issued) > 0 THEN DOMAIN series_store ELSE {} :
          /\ ret'.op = "engine_filter_f64" =>
                \A mask \in Masks :
                   \/ ret'.val # h /\ Preserved
                   \/ filter_rejects(h, mask)
                   \/ ~engine_filter_f64(h, mask)
          /\ ret'.op = "engine_sort_values_f64" =>
                \A a, n \in Bytes :
                   \/ ret'.val # h /\ Preserved
                   \/ sort_values_rejects(h)
                   \/ ~engine_sort_values_f64(h, a, n)
          /\ ret'.op \in OperatorOps =>
                \A keys \in KeyDocs :
                   \/ ret'.val # h /\ Preserved
                   \/ groupby_rejects(h, keys)
                   \/ ~SingleGroupBy(ret'.op, h, keys)
          /\ ret'.op = "engine_groupby_multi_f64" =>
                \A keys \in KeyDocs, m \in AggMasks :
                   \/ h \notin Range(ret'.val) /\ Preserved
                   \/ groupby_rejects(h, keys)
                   \/ ~engine_groupby_multi_f64(h, keys, m)]_vars

\* C8: engine_filter_f64 returns 0xFFFFFFFF when h is absent, when the source
\* has length 0 or when the mask length differs from the source length, and
\* changes nothing; in every other case it registers a series under the handle
\* it returns.
C8_FilterSentinel ==
    [][ret'.op = "engine_filter_f64" =>
          \A h \in Handles, mask \in Masks :
             \/ IF \/ h \notin DOMAIN series_store
                   \/ engine_series_len_f64(h) = 0
                   \/ Len(mask) # engine_series_len_f64(h)
                THEN ret'.val = U32_MAX /\ UNCHANGED registry
                ELSE /\ ret'.val = next_series_id
                     /\ ret'.val \in DOMAIN series_store'
                     /\ next_series_id' = wrapping_add(next_series_id, 1)
             \/ ~engine_filter_f64(h, mask)]_vars
\* A mask that selects nothing still registers a series: an empty one.
C8_Witness ==
    /\ ret = Ret("engine_filter_f64", 1)
    /\ 0 \in DOMAIN series_store /\ series_store[0].len = 1
    /\ 1 \in DOMAIN series_store /\ series_store[1].len = 0
\* The positions a mask keeps, and the elements of data at them in order.
Kept(mask) == {i \in 1..Len(mask) : mask[i] # 0}
Subsequence(data, mask) ==
    [j \in 1..Cardinality(Kept(mask)) |->
        data[CHOOSE i \in Kept(mask) : Cardinality({k \in Kept(mask) : k < i}) = j - 1]]

\* C9: the series a successful engine_filter_f64 registers holds exactly the
\* source elements whose mask byte is nonzero, in source order; filter_f64
\* returns the same sequence, and the empty one when the lengths differ.
C9_FilterKeepsNonzero ==
    /\ (ret.op = "engine_filter_f64" /\ ret.val # U32_MAX) =>
          engine_series_to_vec_f64(ret.val) = Subsequence(input.data, input.mask)
    /\ ret.op = "filter_f64" =>
          ret.val = IF Len(input.data) = Len(input.mask)
                    THEN Subsequence(input.data, input.mask)
                    ELSE <<>>
C9_Witness ==
    /\ input = FilterExample
    /\ ret = Ret("engine_filter_f64", 1)
    /\ engine_series_to_vec_f64(0) = <<Num(1), Num(2), Num(3), Num(4)>>
    /\ engine_series_to_vec_f64(1) = <<Num(1), Num(3)>>
\* The null of each element type, and the placement of nulls in a sorted index
\* sequence idx over col: every null row after (nulls_last) or before (not
\* nulls_last) every non-null row.
IsNullF64(v) == is_nan(v)
IsNullI32(v) == v = I32_MIN
NullsPlaced(col, idx, nulls_last, IsNull(_)) ==
    \A i, j \in 1..Len(idx) :
       (IsNull(col[idx[i] + 1]) /\ ~IsNull(col[idx[j] + 1])) =>
          IF nulls_last THEN i > j ELSE i < j
IdentityIdx(n) == [i \in 1..n |-> i - 1]
SortOpsF64 ==
    {"sort_single_column_f64", "sort_two_columns_f64", "engine_sort_indices_f64",
     "engine_sort_two_columns_indices_f64"}
SortOpsI32 ==
    {"sort_single_column_i32", "sort_two_columns_i32", "engine_sort_indices_i32",
     "engine_sort_two_columns_indices_i32"}

\* C10: in every sort entry point, with nulls_last 1 every null row (NaN, or
\* i32::MIN) follows every non-null row, and with nulls_last 0 precedes it,
\* whatever the ascending flags are; for two columns this is about the first
\* column.
C10_NullPlacement ==
    input.nulls_last \in {0, 1} =>
       /\ (input.ty = "f64" /\ ret.op \in SortOpsF64) =>
             NullsPlaced(input.col1, ret.val, input.nulls_last = 1, IsNullF64)
       /\ (input.ty = "i32" /\ ret.op \in SortOpsI32) =>
             NullsPlaced(input.col1, ret.val, input.nulls_last = 1, IsNullI32)
       /\ (ret.op = "engine_sort_values_f64" /\ ret.val # U32_MAX) =>
             LET sorted == engine_series_to_vec_f64(ret.val)
             IN NullsPlaced(sorted, IdentityIdx(Len(sorted)), input.nulls_last = 1,
                            IsNullF64)

\* Two rows tie on a column when they hold equal values or are both null.
TieF64(a, b) == (is_nan(a) /\ is_nan(b)) \/ (~is_nan(a) /\ ~is_nan(b) /\ a = b)
TieI32(a, b) == a = b
\* Rows that tie keep their original relative order in idx.
TiesKeepOrder(idx, Tie(_, _)) ==
    \A i, j \in 1..Len(idx) : (i < j /\ Tie(idx[i], idx[j])) => idx[i] < idx[j]
SingleOps == {"sort_single_column_f64", "engine_sort_indices_f64",
              "sort_single_column_i32", "engine_sort_indices_i32"}

EngineSortOps ==
    {"engine_sort_indices_f64", "engine_sort_two_columns_indices_f64",
     "engine_sort_indices_i32", "engine_sort_two_columns_indices_i32"}
\* The columns the last sort call read: the arrays handed to a direct
\* function, the series 0 and 1 for a registry-backed one.
SortedCol1 ==
    IF ret.op \notin EngineSortOps THEN input.col1
    ELSE IF ret.op \in SortOpsF64 THEN engine_series_to_vec_f64(0)
    ELSE engine_series_to_vec_i32(0)
SortedCol2 ==
    IF ret.op \notin EngineSortOps THEN input.col2
    ELSE IF ret.op \in SortOpsF64 THEN engine_series_to_vec_f64(1)
    ELSE engine_series_to_vec_i32(1)

\* C11: in the index sequence of every sort entry point, two rows that tie on
\* all the sort columns appear in their original relative order, whatever
\* the flags; [3, NaN, 1, NaN, 2] ascending with nulls last gives [2,4,0,1,3].
C11_SortStable ==
    /\ (input.ty = "f64" /\ ret.op \in SortOpsF64) =>
          LET Tie1(a, b) == TieF64(SortedCol1[a + 1], SortedCol1[b + 1])
              Tie2(a, b) == Tie1(a, b) /\ TieF64(SortedCol2[a + 1], SortedCol2[b + 1])
          IN IF ret.op \in SingleOps THEN TiesKeepOrder(ret.val, Tie1)
                                     ELSE TiesKeepOrder(ret.val, Tie2)
    /\ (input.ty = "i32" /\ ret.op \in SortOpsI32) =>
          LET Tie1(a, b) == TieI32(SortedCol1[a + 1], SortedCol1[b + 1])
              Tie2(a, b) == Tie1(a, b) /\ TieI32(SortedCol2[a + 1], SortedCol2[b + 1])
          IN IF ret.op \in SingleOps THEN TiesKeepOrder(ret.val, Tie1)
                                     ELSE TiesKeepOrder(ret.val, Tie2)
    /\ (input = SortExample /\ ret.op \in SingleOps /\ ret.val # <<>>) =>
          ret.val = <<2, 4, 0, 1, 3>>
C11_Witness ==
    /\ input = SortExample
    /\ ret = Ret("engine_sort_indices_f64", <<2, 4, 0, 1, 3>>)
    /\ engine_series_to_vec_f64(0) = SortExample.col1
AbsentOrEmptyF64(h) == h \notin DOMAIN series_store \/ engine_series_len_f64(h) = 0
AbsentOrEmptyI32(h) == h \notin DOMAIN series_store_i32 \/ engine_series_len_i32(h) = 0

\* C12: a registry-backed sort-indices call returns the empty index array
\* when a source handle is absent from the table of its element type or has
\* length 0, the two-column ones also when the two sources differ in length;
\* engine_sort_values_f64 returns 0xFFFFFFFF for an absent or empty source.
C12_SortRejects ==
    /\ (ret.op = "engine_sort_indices_f64" /\ AbsentOrEmptyF64(0)) => ret.val = <<>>
    /\ (ret.op = "engine_sort_indices_i32" /\ AbsentOrEmptyI32(0)) => ret.val = <<>>
    /\ (/\ ret.op = "engine_sort_two_columns_indices_f64"
        /\ \/ AbsentOrEmptyF64(0)
           \/ AbsentOrEmptyF64(1)
           \/ engine_series_len_f64(0) # engine_series_len_f64(1)) => ret.val = <<>>
    /\ (/\ ret.op = "engine_sort_two_columns_indices_i32"
        /\ \/ AbsentOrEmptyI32(0)
           \/ AbsentOrEmptyI32(1)
           \/ engine_series_len_i32(0) # engine_series_len_i32(1)) => ret.val = <<>>
    /\ (ret.op = "engine_sort_values_f64" /\ AbsentOrEmptyF64(0)) => ret.val = U32_MAX
\* Two live sources of lengths 2 and 1.
C12_Witness ==
    /\ ret = Ret("engine_sort_two_columns_indices_f64", <<>>)
    /\ engine_series_len_f64(0) = 2
    /\ engine_series_len_f64(1) = 1
\* ---- groupby
\* x before y in the lexicographic order of byte strings: they agree up to a
\* position where x has ended or holds the smaller byte.
LexLess(x, y) ==
    \E i \in 1..Len(y) :
       /\ \A j \in 1..(i - 1) : j <= Len(x) /\ x[j] = y[j]
       /\ i > Len(x) \/ x[i] < y[i]
\* The keys of K in ascending lexicographic order.
LexOrder(K) ==
    [j \in 1..Cardinality(K) |->
        CHOOSE k \in K : Cardinality({x \in K : LexLess(x, k)}) = j - 1]
SingleGroupOps ==
    {"engine_groupby_sum_f64", "engine_groupby_mean_f64", "engine_groupby_count_f64",
     "engine_groupby_min_f64", "engine_groupby_max_f64", "engine_groupby_std_f64",
     "engine_groupby_var_f64"}
\* The mask bit of each single-aggregate entry point.
OpBit(op) ==
    CASE op = "engine_groupby_sum_f64" -> 1
      [] op = "engine_groupby_mean_f64" -> 2
      [] op = "engine_groupby_count_f64" -> 4
      [] op = "engine_groupby_min_f64" -> 8
      [] op = "engine_groupby_max_f64" -> 16
      [] op = "engine_groupby_std_f64" -> 32
      [] op = "engine_groupby_var_f64" -> 64
\* The aggregate of bit over the rows of key k.
KeyAgg(bit, keys, buf, k) ==
    CASE bit = 1 -> KeySum(keys, buf, k, Len(keys))
      [] bit = 2 -> KeyMean(keys, buf, k)
      [] bit = 4 -> Num(KeyCount(keys, buf, k))
      [] bit = 8 -> KeyMin(keys, buf, k, Len(keys))
      [] bit = 16 -> KeyMax(keys, buf, k, Len(keys))
      [] bit = 32 -> KeyStd(keys, buf, k)
      [] bit = 64 -> KeyVar(keys, buf, k)
\* The call read the source input.data under the keys GroupKeys.
GroupKeys == ParseKeys(input.keys)
\* The elements of the f64 series id of the table store.
OutputF64(store, id) == IF id \in DOMAIN store THEN store[id].buf ELSE <<>>
\* res holds the aggregates of some of the keys, in ascending key order.
InKeyOrder(res, bit) ==
    \E K \in SUBSET AllKeys(GroupKeys) :
       /\ Cardinality(K) = Len(res)
       /\ \A j \in 1..Len(res) :
             res[j] = KeyAgg(bit, GroupKeys, input.data, LexOrder(K)[j])

\* C13: the elements of the result of every groupby aggregate, single or
\* batched, follow the ascending lexicographic order of their keys, whatever
\* the row order of the key vector.
C13_GroupByKeyOrder ==
    [][/\ (ret'.op \in SingleGroupOps /\ ret'.val # U32_MAX) =>
            InKeyOrder(OutputF64(series_store', ret'.val), OpBit(ret'.op))
       /\ ret'.op = "engine_groupby_multi_f64" =>
            \A m \in GroupMasks :
               \/ Len(SetBits(m, 7)) # Len(ret'.val)
               \/ \A j \in 1..Len(ret'.val) :
                     InKeyOrder(OutputF64(series_store', ret'.val[j]), SetBits(m, 7)[j])
               \/ ~engine_groupby_multi_f64(0, input.keys, m)]_vars
\* Sum of [10,20,30,40] grouped by [b,a,b,a] is [60,40].
C13_Witness ==
    /\ input = GroupExample
    /\ ret = Ret("engine_groupby_sum_f64", 1)
    /\ OutputF64(series_store, 1) = <<Num(60), Num(40)>>
\* The rows of key k, and those of them that are not NaN.
RowsOf(k) == {i \in 1..Len(GroupKeys) : GroupKeys[i] = k}
NonNanRowsOf(k) == {i \in RowsOf(k) : ~is_nan(input.data[i])}
DistinctKeys == {GroupKeys[i] : i \in 1..Len(GroupKeys)}
AllNanKeys == {k \in DistinctKeys : NonNanRowsOf(k) = {}}
Succeeded(op) == ret.op = op /\ ret.val # U32_MAX

\* C14: the result of a successful groupby count has one element per distinct
\* key of the key vector, the number of non-NaN rows of that key, which is 0
\* for a key all of whose rows are NaN.
C14_CountEveryKey ==
    Succeeded("engine_groupby_count_f64") =>
       LET res == OutputF64(series_store, ret.val)
       IN /\ Len(res) = Cardinality(DistinctKeys)
          /\ \A j \in 1..Len(res) :
                LET k == LexOrder(DistinctKeys)[j]
                IN /\ res[j] = Num(Cardinality(NonNanRowsOf(k)))
                   /\ k \in AllNanKeys => res[j] = Num(0)
\* A count over two keys, one of them with NaN rows only.
C14_Witness ==
    /\ Succeeded("engine_groupby_count_f64")
    /\ Cardinality(DistinctKeys) = 2
    /\ Cardinality(AllNanKeys) = 1
    /\ Num(0) \in Range(OutputF64(series_store, ret.val))
NanAggregateOps ==
    {"engine_groupby_mean_f64", "engine_groupby_min_f64", "engine_groupby_max_f64",
     "engine_groupby_std_f64", "engine_groupby_var_f64"}

\* C15: the result of a successful groupby mean, min, max, std or var has an
\* element for every distinct key of the key vector, and the element of a key
\* all of whose rows are NaN is NaN.
C15_AllNanKeyYieldsNaN ==
    (ret.op \in NanAggregateOps /\ ret.val # U32_MAX) =>
       LET res == OutputF64(series_store, ret.val)
       IN /\ Len(res) = Cardinality(DistinctKeys)
          /\ \A j \in 1..Len(res) :
                LexOrder(DistinctKeys)[j] \in AllNanKeys => is_nan(res[j])
\* The results vector of the single-aggregate entry point of a mask bit.
SingleResults(bit) ==
    CASE bit = 1 -> groupby_sum_results(GroupKeys, input.data)
      [] bit = 2 -> groupby_mean_results(GroupKeys, input.data)
      [] bit = 4 -> groupby_count_results(GroupKeys, input.data)
      [] bit = 8 -> groupby_min_results(GroupKeys, input.data)
      [] bit = 16 -> groupby_max_results(GroupKeys, input.data)
      [] bit = 32 -> groupby_std_results(GroupKeys, input.data)
      [] bit = 64 -> groupby_var_results(GroupKeys, input.data)

\* C16: for every series, key vector of equal length and mask, each series
\* returned by engine_groupby_multi_f64 has the length and the values, in the
\* same key order, of the result of the corresponding single-aggregate entry
\* point on the same input.
C16_MultiMatchesSingle ==
    [][ret'.op = "engine_groupby_multi_f64" =>
          \A m \in GroupMasks :
             \/ Len(SetBits(m, 7)) # Len(ret'.val)
             \/ \A j \in 1..Len(ret'.val) :
                   OutputF64(series_store', ret'.val[j]) = SingleResults(SetBits(m, 7)[j])
             \/ ~engine_groupby_multi_f64(0, input.keys, m)]_vars
\* The aggregates a mask asks for, lowest bit first.
MaskBits(m) == {b \in {1, 2, 4, 8, 16, 32, 64} : (m \div b) % 2 = 1}
AscendingBits(m) ==
    [j \in 1..Cardinality(MaskBits(m)) |->
        CHOOSE b \in MaskBits(m) : Cardinality({c \in MaskBits(m) : c < b}) = j - 1]
\* Valid input of a groupby call on handle 0: the source is live with a
\* readable block and the key vector has its length.
ValidGroupInput ==
    /\ 0 \in DOMAIN series_store
    /\ series_store[0].ptr # 0
    /\ Len(GroupKeys) = series_store[0].len
\* The aggregate of bit for each key that has a non-NaN row, in key order.
BatchedResults(bit) ==
    LET ks == LexOrder(DistinctKeys \ AllNanKeys)
    IN [i \in 1..Len(ks) |-> KeyAgg(bit, GroupKeys, input.data, ks[i])]

\* C17: on valid input engine_groupby_multi_f64 returns one handle per set
\* bit of the mask, the j-th handle holding the aggregate of the j-th lowest
\* set bit; the handles are pairwise distinct and each is a live f64 series
\* that was not registered before the call.
C17_MultiOneHandlePerBit ==
    [][(ret'.op = "engine_groupby_multi_f64" /\ ValidGroupInput) =>
          \A m \in GroupMasks :
             \/ /\ Len(ret'.val) = Cardinality(MaskBits(m))
                /\ \A j \in 1..Len(ret'.val) :
                      /\ ret'.val[j] \notin DOMAIN series_store
                      /\ ret'.val[j] \in DOMAIN series_store'
                      /\ OutputF64(series_store', ret'.val[j]) = BatchedResults(AscendingBits(m)[j])
                      /\ \A i \in 1..(j - 1) : ret'.val[i] # ret'.val[j]
             \/ ~engine_groupby_multi_f64(0, input.keys, m)]_vars
\* A batched call returned two handles whose series differ.
C17_Witness ==
    /\ ret = Ret("engine_groupby_multi_f64", <<1, 2>>)
    /\ {1, 2} \subseteq DOMAIN series_store
    /\ OutputF64(series_store, 1) # OutputF64(series_store, 2)
    /\ Len(OutputF64(series_store, 1)) = 2
\* C18: a groupby call whose source handle is absent, or whose key vector
\* length differs from the length of the source series, fails: a single
\* aggregate returns the sentinel, the batched call an empty handle array.
C18_GroupByRejects ==
    LET bad == 0 \notin DOMAIN series_store \/ Len(GroupKeys) # Len(input.data)
    IN /\ (ret.op \in SingleGroupOps /\ bad) => ret.val = U32_MAX
       /\ (ret.op = "engine_groupby_multi_f64" /\ bad) => ret.val = <<>>
\* A single aggregate refused a live source with a key vector of another length.
C18_Witness ==
    /\ ret = Ret("engine_groupby_max_f64", U32_MAX)
    /\ 0 \in DOMAIN series_store
    /\ Len(GroupKeys) = 1
    /\ Len(input.data) = 2
\* A key argument that is no JSON array of strings.
Malformed(doc) ==
    \/ doc.t # "array"
    \/ \E i \in 1..Len(doc.items) : doc.items[i].t # "string"
GroupFailed ==
    \/ ret.op \in SingleGroupOps /\ ret.val = U32_MAX
    \/ ret.op = "engine_groupby_multi_f64" /\ ret.val = <<>>
\* Only the source is registered and the counter stands right after it.
OnlySource == DOMAIN series_store = {0} /\ next_series_id = 1
AfterGroupCall == ret.op \in SingleGroupOps \cup {"engine_groupby_multi_f64"}

\* C19 as stated: a groupby call with a malformed key argument fails without
\* registering a series, for every live source series.
C19_MalformedKeysFail ==
    (AfterGroupCall /\ Malformed(input.keys) /\ 0 \in DOMAIN series_store) =>
       GroupFailed /\ OnlySource
\* C19 amended: a groupby call with a malformed key argument fails without
\* registering a series, for every live source series of length at least 1.
C19_MalformedKeysFailNonEmpty ==
    (AfterGroupCall /\ Malformed(input.keys) /\ 0 \in DOMAIN series_store
        /\ Len(input.data) >= 1) =>
       GroupFailed /\ OnlySource
\* A mean over a live source of length 2 refused the keys [b, b, 1].
C19_Witness ==
    /\ ret = Ret("engine_groupby_mean_f64", U32_MAX)
    /\ OnlySource
    /\ Len(input.data) = 2
    /\ input.keys.t = "array"
    /\ Len(input.keys.items) = 3
    /\ Malformed(input.keys)
\* ---- scalar reductions
NotNan(v) == ~is_nan(v)
\* The non-NaN elements of the series, in order; none when handle 0 is absent.
Valid == IF 0 \in DOMAIN series_store THEN SelectSeq(input, NotNan) ELSE <<>>
RECURSIVE SeqSum(_)
SeqSum(q) == IF q = <<>> THEN Num(0) ELSE FAdd(SeqSum(SubSeq(q, 1, Len(q) - 1)), q[Len(q)])
SeqMean(q) == FDivInt(SeqSum(q), Len(q))
SqDevs(q) == [i \in 1..Len(q) |-> FMul(FSub(q[i], SeqMean(q)), FSub(q[i], SeqMean(q)))]
SampleStd(q) == FSqrt(FDivInt(SeqSum(SqDevs(q)), Len(q) - 1))
Least(q, m) == m \in Range(q) /\ \A i \in 1..Len(q) : ~FLt(q[i], m)
Greatest(q, m) == m \in Range(q) /\ \A i \in 1..Len(q) : ~FGt(q[i], m)

\* C20: the scalar reductions of a registered f64 series skip its NaN
\* elements: sum is the sum of the others, 0.0 when there are none; mean, min
\* and max are NaN when the handle is absent or no element is non-NaN, else
\* the mean, least and greatest of the others; std is NaN with fewer than two
\* non-NaN elements (or an absent handle), else their sample deviation; count
\* is the number of non-NaN elements, 0 for an absent handle.
C20_ScalarReductions ==
    /\ ret.op = "engine_series_sum_f64" => ret.val = SeqSum(Valid)
    /\ ret.op = "engine_series_mean_f64" =>
          IF Valid = <<>> THEN is_nan(ret.val) ELSE ret.val = SeqMean(Valid)
    /\ ret.op = "engine_series_std_f64" =>
          IF Len(Valid) < 2 THEN is_nan(ret.val) ELSE ret.val = SampleStd(Valid)
    /\ ret.op = "engine_series_min_f64" =>
          IF Valid = <<>> THEN is_nan(ret.val) ELSE Least(Valid, ret.val)
    /\ ret.op = "engine_series_max_f64" =>
          IF Valid = <<>> THEN is_nan(ret.val) ELSE Greatest(Valid, ret.val)
    /\ ret.op = "engine_series_count_f64" => ret.val = Len(Valid)
\* std of a live series of several elements, one of them non-NaN, is NaN.
C20_Witness ==
    /\ ret.op = "engine_series_std_f64"
    /\ 0 \in DOMAIN series_store
    /\ Len(input) = 3
    /\ Len(Valid) = 1
    /\ is_nan(ret.val)
\* ---- direct statistics
NoValid == \A i \in 1..Len(input) : is_nan(input[i])

\* C21: on an array with no non-NaN element (empty or all NaN) sum_f64
\* returns 0.0 and mean_f64, min_f64 and max_f64 each return NaN.
C21_DirectNoValid ==
    NoValid =>
       /\ ret.op = "sum_f64" => ret.val = Num(0)
       /\ ret.op \in {"mean_f64", "min_f64", "max_f64"} => is_nan(ret.val)
\* The registry-backed reduction that answers to each direct function.
EngineResult(op) ==
    CASE op = "sum_f64" -> engine_series_sum_f64(0)
      [] op = "mean_f64" -> engine_series_mean_f64(0)
      [] op = "std_f64" -> engine_series_std_f64(0)
      [] op = "min_f64" -> engine_series_min_f64(0)
      [] op = "max_f64" -> engine_series_max_f64(0)
      [] op = "count_non_null_f64" -> engine_series_count_f64(0)
DirectOps ==
    {"sum_f64", "mean_f64", "std_f64", "min_f64", "max_f64", "count_non_null_f64"}

\* C22: for every f64 array x each direct statistics function returns on x
\* the result (NaN matching NaN) of the registry-backed reduction of the same
\* name on a series created from x.
C22_DirectMatchesEngine ==
    (ret.op \in DirectOps /\ 0 \in DOMAIN series_store) => ret.val = EngineResult(ret.op)
\* ---- conventions across the registry
\* C23: a handle-returning operation (create, filter, sort_values, single
\* groupby) returns the maximum handle value only when it failed and
\* registered nothing: a step that returns it leaves the registry unchanged,
\* so the value is never the handle of a series the call made live.
C23_SentinelUnambiguous ==
    [][(ret'.op \in CreateOps \cup OperatorOps /\ ret'.val = U32_MAX) =>
          /\ UNCHANGED registry
          /\ U32_MAX \notin Range(Issued)]_vars
\* ---- sort values and sort indices
\* idx holds every row position 0..n-1 exactly once.
IsPermutation(idx, n) == Len(idx) = n /\ Range(idx) = 0..(n - 1)
LiveNonEmptyF64(h) == h \in DOMAIN series_store /\ engine_series_len_f64(h) > 0

\* C24: for a live non-empty f64 series h and any flags, the result of
\* engine_sort_indices_f64 is a permutation of 0..n-1, and the series
\* registered by engine_sort_values_f64 has length n and holds at position i
\* the source element at the i-th index of that permutation.
C24_SortValuesFollowIndices ==
    LiveNonEmptyF64(0) =>
       LET src == engine_series_to_vec_f64(0)
           perm == SortIndicesF64(0, input.asc1, input.nulls_last)
       IN /\ ret.op = "engine_sort_indices_f64" =>
                ret.val = perm /\ IsPermutation(ret.val, Len(src))
          /\ ret.op = "engine_sort_values_f64" =>
                LET out == engine_series_to_vec_f64(ret.val)
                IN /\ IsPermutation(perm, Len(src))
                   /\ Len(out) = Len(src)
                   /\ \A i \in 1..Len(out) : out[i] = src[perm[i] + 1]
\* A sort that moved the rows: the values series holds them in index order.
C24_Witness ==
    /\ ret = Ret("engine_sort_values_f64", 1)
    /\ LiveNonEmptyF64(0)
    /\ SortIndicesF64(0, input.asc1, input.nulls_last) = <<1, 0>>
    /\ engine_series_to_vec_f64(1) = <<engine_series_to_vec_f64(0)[2], engine_series_to_vec_f64(0)[1]>>
    /\ engine_series_to_vec_f64(1) # engine_series_to_vec_f64(0)
\* ---- failure
\* A step whose call reported failure: the sentinel from filter, sort_values
\* or a single groupby, the empty array from the batched groupby.
ReportsFailure ==
    \/ ret'.op \in OperatorOps /\ ret'.val = U32_MAX
    \/ ret'.op = "engine_groupby_multi_f64" /\ ret'.val = <<>>

\* C25: a call that reports failure leaves both tables, every series'
\* contents and the handle counter unchanged.
C25_FailureAtomic ==
    [][ReportsFailure => UNCHANGED registry]_vars
\* ---- flag bytes
\* Handles 0 and 1 hold the same non-empty column, and both direction flags
\* are the same byte.
SameColumnsF64 ==
    /\ {0, 1} \subseteq DOMAIN series_store
    /\ engine_series_to_vec_f64(0) = engine_series_to_vec_f64(1)
    /\ engine_series_len_f64(0) > 0
    /\ input.asc1 = input.asc2
SameColumnsI32 ==
    /\ {0, 1} \subseteq DOMAIN series_store_i32
    /\ engine_series_to_vec_i32(0) = engine_series_to_vec_i32(1)
    /\ engine_series_len_i32(0) > 0
    /\ input.asc1 = input.asc2

\* C26: for every value of the flag bytes, a two-column entry point called
\* with two identical columns returns the index order of the single-column
\* entry point called with the same flag bytes on that column.
C26_FlagBytesAgree ==
    /\ (ret.op = "engine_sort_two_columns_indices_f64" /\ SameColumnsF64) =>
          ret.val = SortIndicesF64(0, input.asc1, input.nulls_last)
    /\ (ret.op = "engine_sort_two_columns_indices_i32" /\ SameColumnsI32) =>
          ret.val = SortIndicesI32(0, input.asc1, input.nulls_last)
\* ---- the two tables
\* Every f64 entry point answers on h as for an absent handle.
AbsentToF64(h) ==
    /\ engine_series_len_f64(h) = 0
    /\ engine_series_to_vec_f64(h) = <<>>
    /\ \A mask \in Masks : filter_rejects(h, mask)
    /\ sort_values_rejects(h)
    /\ \A doc \in KeyDocs : groupby_rejects(h, doc)
AbsentToI32(h) ==
    /\ engine_series_len_i32(h) = 0
    /\ engine_series_to_vec_i32(h) = <<>>
\* Across a free of the other type, the handles of I32 (of F64) stay as they
\* are and the number of series does not change.
CrossFreeIsNoOp(I32, F64) ==
    /\ ret'.op = "engine_free_series" =>
          \A h \in I32 :
             \/ /\ h \in DOMAIN series_store_i32'
                /\ series_store_i32'[h] = series_store_i32[h]
                /\ engine_series_count' = engine_series_count
             \/ ~engine_free_series(h)
    /\ ret'.op = "engine_free_series_i32" =>
          \A h \in F64 :
             \/ /\ h \in DOMAIN series_store'
                /\ series_store'[h] = series_store[h]
                /\ engine_series_count' = engine_series_count
             \/ ~engine_free_series_i32(h)
\* A handle leaves a table only through the free of its type or a flush.
RemovedByOwnFree ==
    /\ DOMAIN series_store_i32 \subseteq DOMAIN series_store_i32'
          \/ ret'.op \in {"engine_free_series_i32", "engine_flush"}
    /\ DOMAIN series_store \subseteq DOMAIN series_store'
          \/ ret'.op \in {"engine_free_series", "engine_flush"}

\* C27: a handle issued for an i32 series is absent to every f64 entry point,
\* engine_free_series on it leaves the i32 series live and unchanged and the
\* series count unchanged, and only engine_free_series_i32 or engine_flush
\* removes it; the same with the types exchanged.
C27_TablesSeparate ==
    [][/\ \A h \in DOMAIN series_store_i32 : AbsentToF64(h)
       /\ \A h \in DOMAIN series_store : AbsentToI32(h)
       /\ CrossFreeIsNoOp(DOMAIN series_store_i32, DOMAIN series_store)
       /\ RemovedByOwnFree]_vars

=============================================================================
